---- MODULE Spec2Model ----
(***************************************************************************)
(* Model of src/app.py: a Flask service holding an in-memory list of       *)
(* Event(id, title) objects, with the handlers create_event (POST          *)
(* /events), update_event (PATCH /events/<id>) and delete_event (DELETE    *)
(* /events/<id>).                                                          *)
(*                                                                         *)
(* Spec      : requests handled one at a time, each handler one step.      *)
(* SpecJson  : Spec with every request body a well-formed JSON document.   *)
(* SpecConc  : two server threads running the three handlers, each handler *)
(*             one step per access to the shared list or to an Event.      *)
(***************************************************************************)
EXTENDS Integers, Sequences, FiniteSets, TLC

VARIABLES
    events,     \* the module-level list `events` (app.py:15), a sequence of Event
    req,        \* Spec: the request handled last
    resp,       \* the response sent by the last step
    assigned,   \* history: every id ever given to an Event (app.py:16-17, 59)
    pc,         \* SpecConc: per thread, the line its handler stands at
    local       \* SpecConc: per thread, the request and the handler's locals

vars == <<events, req, resp, assigned, pc, local>>

(***************************** bounds **************************************)
MaxEvents == 3      \* creates are explored while the list is shorter than this
MaxId == 4          \* creates are explored while the new id is at most this
MaxConcId == 2      \* the same for SpecConc, and the largest id its requests name

(*************************** the data **************************************)
\* class Event: __init__ stores id and title.
Event(id, title) == [id |-> id, title |-> title]

\* Event.to_dict: {"id": self.id, "title": self.title}
to_dict(e) == [id |-> e.id, title |-> e.title]

\* events = [Event(1, "Tech Meetup"), Event(2, "Python Workshop")]
SeedEvents == <<Event(1, "Tech Meetup"), Event(2, "Python Workshop")>>

Ids(evs) == {evs[i].id : i \in 1..Len(evs)}

(************************ request bodies ***********************************)
\* Titles a client sends under the key "title".
TitleInputs == {"Demo", ""}

\* A Python dict as its set of (key, value) items.
DictBodies ==
    {[type |-> "dict", items |-> {}],
     [type |-> "dict", items |-> {<<"other", "x">>}]}
    \cup {[type |-> "dict", items |-> {<<"title", t>>}] : t \in TitleInputs}
    \cup {[type |-> "dict", items |-> {<<"title", "Demo">>, <<"other", "x">>}]}

\* The other values a JSON document parses to.  A str is its sequence of
\* characters, a list its sequence of (string) elements.
OtherJson ==
    {[type |-> "NoneType"],
     [type |-> "int", n |-> 0], [type |-> "int", n |-> 5],
     [type |-> "bool", b |-> TRUE],
     [type |-> "str", s |-> <<"t", "i", "t", "l", "e">>],
     [type |-> "list", elems |-> <<>>], [type |-> "list", elems |-> <<"title">>]}

JsonValues == DictBodies \cup OtherJson

\* What a request carries: no JSON body at all, a body with the JSON content
\* type that does not parse, or a JSON document.
JsonBodies == {[kind |-> "json", data |-> d] : d \in JsonValues}

Bodies == {[kind |-> "absent"], [kind |-> "malformed"]} \cup JsonBodies

\* Ids a client puts in the path; MaxId + 1 is an id no event ever had.
PathIds == 1..(MaxId + 1)

(************************** Python semantics *******************************)
\* bool(data), as `not data` evaluates it.
Truthy(d) ==
    CASE d.type = "NoneType" -> FALSE
      [] d.type = "dict" -> d.items # {}
      [] d.type = "list" -> d.elems # <<>>
      [] d.type = "str" -> d.s # <<>>
      [] d.type = "int" -> d.n # 0
      [] d.type = "bool" -> d.b

TitleChars == <<"t", "i", "t", "l", "e">>

\* 'title' in data: "yes", "no", or "TypeError" for a value that is no container.
Contains(d) ==
    CASE d.type = "dict" ->
            IF \E p \in d.items : p[1] = "title" THEN "yes" ELSE "no"
      [] d.type = "list" ->
            IF \E i \in 1..Len(d.elems) : d.elems[i] = "title" THEN "yes" ELSE "no"
      [] d.type = "str" ->
            IF \E i \in 0..(Len(d.s) - Len(TitleChars)) :
                   SubSeq(d.s, i + 1, i + Len(TitleChars)) = TitleChars
            THEN "yes" ELSE "no"
      [] OTHER -> "TypeError"

\* data['title'] is defined for a dict alone; on a str or a list it raises TypeError.
Subscriptable(d) == d.type = "dict"

GetTitle(d) == (CHOOSE p \in d.items : p[1] = "title")[2]

\* Variant: the value is tested too, as `not data.get('title')` would.
Validate_requiring_nonempty(d) ==
    IF ~Truthy(d) THEN "missing"
    ELSE IF Contains(d) = "TypeError" THEN "TypeError"
    ELSE IF Contains(d) = "no" THEN "missing"
    ELSE IF ~Subscriptable(d) THEN "TypeError"
    ELSE IF GetTitle(d) = "" THEN "missing"
    ELSE "ok"

\* `if not data or 'title' not in data` followed by the read data['title']:
\* "missing" (the handler answers 400), "TypeError" (the handler raises), "ok".
Validate(d) ==
    IF ~Truthy(d) THEN "missing"
    ELSE IF Contains(d) = "TypeError" THEN "TypeError"
    ELSE IF Contains(d) = "no" THEN "missing"
    ELSE IF ~Subscriptable(d) THEN "TypeError"
    ELSE "ok"

\* str(n) for n >= 0, as the f-string formats event_id.
Digit(d) ==
    CASE d = 0 -> "0" [] d = 1 -> "1" [] d = 2 -> "2" [] d = 3 -> "3" [] d = 4 -> "4"
      [] d = 5 -> "5" [] d = 6 -> "6" [] d = 7 -> "7" [] d = 8 -> "8" [] d = 9 -> "9"

RECURSIVE str_int(_)
str_int(n) == IF n < 10 THEN Digit(n) ELSE str_int(n \div 10) \o Digit(n % 10)

(**************************** responses ************************************)
NoRequest == [op |-> "NONE", id |-> 0, body |-> [kind |-> "absent"]]
NoResponse == [status |-> 0, body |-> [kind |-> "none"]]

\* jsonify(obj), status
JsonResponse(obj, status) == [status |-> status, body |-> [kind |-> "json", json |-> obj]]

\* jsonify({"error": "Missing required field: title"}), 400
MissingTitle == JsonResponse([error |-> "Missing required field: title"], 400)

\* jsonify({"error": f"Event with ID {event_id} not found"}), 404
NotFound(event_id) ==
    JsonResponse([error |-> "Event with ID " \o str_int(event_id) \o " not found"], 404)

\* return "", 204
NoContent == [status |-> 204, body |-> [kind |-> "empty"]]

\* A response the framework builds itself: its error page for an HTTP
\* exception raised by get_json, or for an exception escaping the handler.
FrameworkError(status) == [status |-> status, body |-> [kind |-> "framework"]]

\* request.get_json() with its default arguments: the set of outcomes.
\*   a JSON document        -> the parsed value
\*   unparsable JSON        -> BadRequest raised, the framework answers 400
\*   no JSON content type   -> depending on the installed Flask: None
\*                             (before 2.1), BadRequest raised (2.1, 2.2),
\*                             UnsupportedMediaType raised (2.3 and later)
get_json(body) ==
    CASE body.kind = "json" -> {[raised |-> FALSE, data |-> body.data]}
      [] body.kind = "malformed" -> {[raised |-> TRUE, response |-> FrameworkError(400)]}
      [] body.kind = "absent" -> {[raised |-> FALSE, data |-> [type |-> "NoneType"]],
                                  [raised |-> TRUE, response |-> FrameworkError(400)],
                                  [raised |-> TRUE, response |-> FrameworkError(415)]}

(***************************** handlers ************************************)
\* Variant: event_id taken for a position in the list.
find_event_by_id_as_position(evs, event_id) ==
    IF event_id \in 1..Len(evs) THEN event_id ELSE 0

\* find_event_by_id: the position of the first event with that id, 0 for None.
find_event_by_id(evs, event_id) ==
    IF \E i \in 1..Len(evs) : evs[i].id = event_id
    THEN CHOOSE i \in 1..Len(evs) :
             /\ evs[i].id = event_id
             /\ \A j \in 1..(i - 1) : evs[j].id # event_id
    ELSE 0

Max(S) == CHOOSE m \in S : \A x \in S : x <= m

\* Variant: len(events) + 1.
new_id_by_length(evs) == Len(evs) + 1

\* Variant: the + 1 forgotten.
new_id_without_increment(evs) == IF evs # <<>> THEN Max(Ids(evs)) ELSE 1

\* new_id = max(event.id for event in events) + 1 if events else 1
new_id(evs) == IF evs # <<>> THEN Max(Ids(evs)) + 1 ELSE 1

\* Variant: events.insert(0, new_event).
append_event_at_front(evs, id, title) == <<Event(id, title)>> \o evs

\* Variant: the id computed again at the moment of the append.
append_event_fresh_id(evs, id, title) == Append(evs, Event(new_id(evs), title))

\* new_event = Event(new_id, data['title']); events.append(new_event)
append_event(evs, id, title) == Append(evs, Event(id, title))

\* create_event, given the outcome g of request.get_json(): the list and the
\* response it leaves.
create_event(evs, g) ==
    IF g.raised THEN [events |-> evs, resp |-> g.response]
    ELSE IF Validate(g.data) = "missing" THEN [events |-> evs, resp |-> MissingTitle]
    ELSE IF Validate(g.data) = "TypeError" THEN [events |-> evs, resp |-> FrameworkError(500)]
    ELSE LET id == new_id(evs)
             after == append_event(evs, id, GetTitle(g.data))
         IN [events |-> after, resp |-> JsonResponse(to_dict(after[Len(after)]), 201)]

\* Variant: the body validated before the lookup.
update_event_validating_first(evs, event_id, g) ==
    LET i == find_event_by_id(evs, event_id) IN
    IF g.raised THEN [events |-> evs, resp |-> g.response]
    ELSE IF Validate(g.data) = "missing" THEN [events |-> evs, resp |-> MissingTitle]
    ELSE IF Validate(g.data) = "TypeError" THEN [events |-> evs, resp |-> FrameworkError(500)]
    ELSE IF i = 0 THEN [events |-> evs, resp |-> NotFound(event_id)]
    ELSE LET after == [evs EXCEPT ![i].title = GetTitle(g.data)]
         IN [events |-> after, resp |-> JsonResponse(to_dict(after[i]), 200)]

\* Variant: the title overwritten before the body is validated.
update_event_clearing_first(evs, event_id, g) ==
    LET i == find_event_by_id(evs, event_id)
        cleared == [evs EXCEPT ![i].title = ""]
    IN
    IF i = 0 THEN [events |-> evs, resp |-> NotFound(event_id)]
    ELSE IF g.raised THEN [events |-> cleared, resp |-> g.response]
    ELSE IF Validate(g.data) = "missing" THEN [events |-> cleared, resp |-> MissingTitle]
    ELSE IF Validate(g.data) = "TypeError" THEN [events |-> cleared, resp |-> FrameworkError(500)]
    ELSE LET after == [evs EXCEPT ![i].title = GetTitle(g.data)]
         IN [events |-> after, resp |-> JsonResponse(to_dict(after[i]), 200)]

\* update_event(event_id); get_json is reached only when the event exists.
update_event(evs, event_id, g) ==
    LET i == find_event_by_id(evs, event_id) IN
    IF i = 0 THEN [events |-> evs, resp |-> NotFound(event_id)]
    ELSE IF g.raised THEN [events |-> evs, resp |-> g.response]
    ELSE IF Validate(g.data) = "missing" THEN [events |-> evs, resp |-> MissingTitle]
    ELSE IF Validate(g.data) = "TypeError" THEN [events |-> evs, resp |-> FrameworkError(500)]
    ELSE LET after == [evs EXCEPT ![i].title = GetTitle(g.data)]
         IN [events |-> after, resp |-> JsonResponse(to_dict(after[i]), 200)]

\* list.remove(x): drops the first element equal to x.  Event defines no
\* __eq__, so that is the object found, at position i.
RemoveAt(evs, i) == SubSeq(evs, 1, i - 1) \o SubSeq(evs, i + 1, Len(evs))

\* Variant: events.pop() in place of events.remove(event).
delete_event_popping_last(evs, event_id) ==
    LET i == find_event_by_id(evs, event_id) IN
    IF i = 0 THEN [events |-> evs, resp |-> NotFound(event_id)]
    ELSE [events |-> RemoveAt(evs, Len(evs)), resp |-> NoContent]

\* delete_event(event_id)
delete_event(evs, event_id) ==
    LET i == find_event_by_id(evs, event_id) IN
    IF i = 0 THEN [events |-> evs, resp |-> NotFound(event_id)]
    ELSE [events |-> RemoveAt(evs, i), resp |-> NoContent]

(************************ one request at a time ****************************)
Threads == {1, 2}

\* The locals of a thread that is in no handler: the request (op, id, valid,
\* title), the list iterator (idx) and running maximum of line 56 or of
\* find_event_by_id, new_id, and the reference event / new_event (pos, obj).
NoLocals ==
    [op |-> "NONE", id |-> 0, valid |-> FALSE, title |-> "", idx |-> 0, max |-> 0,
     new_id |-> 0, pos |-> 0, obj |-> Event(0, "")]

Init ==
    /\ events = SeedEvents
    /\ req = NoRequest
    /\ resp = NoResponse
    /\ assigned = Ids(SeedEvents)
    /\ pc = [t \in Threads |-> "idle"]
    /\ local = [t \in Threads |-> NoLocals]

\* The list stays within the explored bounds.
WithinBounds(evs) == Len(evs) <= MaxEvents /\ \A id \in Ids(evs) : id <= MaxId

\* POST /events, the body drawn from B
CreateEventWith(B) ==
    \E body \in B : \E g \in get_json(body) :
        LET r == create_event(events, g) IN
        /\ WithinBounds(r.events)
        /\ events' = r.events
        /\ resp' = r.resp
        /\ req' = [op |-> "POST", id |-> 0, body |-> body]
        /\ assigned' = assigned \cup Ids(r.events)
        /\ UNCHANGED <<pc, local>>

\* PATCH /events/<int:event_id>, the body drawn from B
UpdateEventWith(B) ==
    \E event_id \in PathIds : \E body \in B : \E g \in get_json(body) :
        LET r == update_event(events, event_id, g) IN
        /\ events' = r.events
        /\ resp' = r.resp
        /\ req' = [op |-> "PATCH", id |-> event_id, body |-> body]
        /\ UNCHANGED <<assigned, pc, local>>

CreateEvent == CreateEventWith(Bodies)

UpdateEvent == UpdateEventWith(Bodies)

\* DELETE /events/<int:event_id>
DeleteEvent ==
    \E event_id \in PathIds :
        LET r == delete_event(events, event_id) IN
        /\ events' = r.events
        /\ resp' = r.resp
        /\ req' = [op |-> "DELETE", id |-> event_id, body |-> [kind |-> "absent"]]
        /\ UNCHANGED <<assigned, pc, local>>

Next == CreateEvent \/ UpdateEvent \/ DeleteEvent

Spec == Init /\ [][Next]_vars

\* The same service with clients that always send a well-formed JSON document.
CreateEventJson == CreateEventWith(JsonBodies)

UpdateEventJson == UpdateEventWith(JsonBodies)

NextJson == CreateEventJson \/ UpdateEventJson \/ DeleteEvent

SpecJson == Init /\ [][NextJson]_vars

(************************ two server threads *******************************)
\* app.run(debug=True) starts the development server, which serves each
\* request in a thread of its own.  The interpreter can switch threads
\* between any two bytecodes, so a handler is one step per access to the
\* shared list or to an Event in it; what a handler computes on its own
\* locals is joined to the access before it.  The C-level list operations
\* (truth test, one next() of a list iterator, append, remove) are atomic.
\*
\* A thread's reference to an Event object is the object's position in the
\* list (local.pos).  When another thread removes that object the reference
\* is detached: pos becomes 0 and local.obj carries the object from then on.
\* With two threads a detached object is referenced by one thread alone.
\* resp is the response the step sends: NoResponse when no handler ends in it.
\* The bodies the clients send: POST with or without the title "Demo", PATCH
\* with or without the title "".
ConcCreateBodies ==
    {[kind |-> "json", data |-> [type |-> "dict", items |-> {}]],
     [kind |-> "json", data |-> [type |-> "dict", items |-> {<<"title", "Demo">>}]]}

ConcUpdateBodies ==
    {[kind |-> "json", data |-> [type |-> "dict", items |-> {}]],
     [kind |-> "json", data |-> [type |-> "dict", items |-> {<<"title", "">>}]]}

\* Ids the clients put in the path.
ConcPathIds == 1..MaxConcId

\* The Event a thread's reference points to.
Deref(l, evs) == IF l.pos > 0 THEN evs[l.pos] ELSE l.obj

\* What the removal of the object at position p does to another thread's
\* reference.
Detach(l, p, removed) ==
    IF l.pos = p THEN [l EXCEPT !.pos = 0, !.obj = removed]
    ELSE IF l.pos > p THEN [l EXCEPT !.pos = l.pos - 1]
    ELSE l

\* Threads inside create_event that have not appended yet.
Creating == {t \in Threads : pc[t] \in {"L56gen", "L59"}}

\* The handler of thread t returns (or raises): the response goes out and
\* the locals are gone.
Return(t, response) ==
    /\ resp' = response
    /\ pc' = [pc EXCEPT ![t] = "idle"]
    /\ local' = [local EXCEPT ![t] = NoLocals]

\* POST /events arrives.  Lines 49-53: data = request.get_json(), the
\* validation and its early return; then the first access of line 56,
\* `... if events else 1`: the truth test of the list.  An empty list gives
\* new_id = 1; otherwise iter(events) is taken and the generator is handed
\* to max().
ConcCreateBegin(t) ==
    /\ pc[t] = "idle"
    /\ \E body \in ConcCreateBodies : \E g \in get_json(body) :
        IF Validate(g.data) = "missing"
        THEN Return(t, MissingTitle)
        ELSE /\ Len(events) + Cardinality(Creating) < MaxEvents
             /\ pc' = [pc EXCEPT ![t] = IF events = <<>> THEN "L59" ELSE "L56gen"]
             /\ local' = [local EXCEPT ![t] =
                    [NoLocals EXCEPT !.op = "POST", !.title = GetTitle(g.data),
                                     !.new_id = IF events = <<>> THEN 1 ELSE 0]]
             /\ resp' = NoResponse
    /\ UNCHANGED <<events, req, assigned>>

\* Line 56, max(event.id for event in events): one next() of the list
\* iterator.  It yields events[idx] while idx is inside the list as it is
\* now; past the end the generator is exhausted, and max() raises ValueError
\* when nothing was yielded, else new_id = max + 1.
ConcGenNext(t) ==
    /\ pc[t] = "L56gen"
    /\ IF local[t].idx < Len(events)
       THEN /\ local' = [local EXCEPT
                   ![t].idx = local[t].idx + 1,
                   ![t].max = IF events[local[t].idx + 1].id > local[t].max
                              THEN events[local[t].idx + 1].id ELSE local[t].max]
            /\ resp' = NoResponse
            /\ UNCHANGED pc
       ELSE IF local[t].idx = 0
       THEN Return(t, FrameworkError(500))
       ELSE /\ local[t].max + 1 <= MaxConcId
            /\ local' = [local EXCEPT ![t].new_id = local[t].max + 1,
                                      ![t].idx = 0, ![t].max = 0]
            /\ pc' = [pc EXCEPT ![t] = "L59"]
            /\ resp' = NoResponse
    /\ UNCHANGED <<events, req, assigned>>

\* Lines 59-60: the Event is built with the id computed at line 56 and
\* appended; new_event refers to it.
ConcAppend(t) ==
    /\ pc[t] = "L59"
    /\ LET after == append_event(events, local[t].new_id, local[t].title) IN
        /\ events' = after
        /\ assigned' = assigned \cup Ids(after)
        /\ local' = [local EXCEPT ![t].pos = Len(after)]
    /\ pc' = [pc EXCEPT ![t] = "L63"]
    /\ resp' = NoResponse
    /\ UNCHANGED req

\* Line 63: return jsonify(new_event.to_dict()), 201
ConcCreateReturn(t) ==
    /\ pc[t] = "L63"
    /\ Return(t, JsonResponse(to_dict(Deref(local[t], events)), 201))
    /\ UNCHANGED <<events, req, assigned>>

\* Lines 31-34, `for event in events`, for the locals l of a thread: one
\* next() of the list iterator and the comparison of the id.  Past the end
\* of the list as it is now, find_event_by_id returns None and the handler
\* answers 404 (lines 85-86, 118-119).  On a match update_event goes on to
\* lines 89-93 (get_json and the validation), delete_event to line 122.
FindNext(t, l) ==
    /\ IF l.idx >= Len(events)
       THEN Return(t, NotFound(l.id))
       ELSE IF events[l.idx + 1].id # l.id
       THEN /\ local' = [local EXCEPT ![t] = [l EXCEPT !.idx = l.idx + 1]]
            /\ pc' = [pc EXCEPT ![t] = "find"]
            /\ resp' = NoResponse
       ELSE IF l.op = "PATCH" /\ ~l.valid
       THEN Return(t, MissingTitle)
       ELSE /\ local' = [local EXCEPT ![t] = [l EXCEPT !.pos = l.idx + 1, !.idx = 0]]
            /\ pc' = [pc EXCEPT ![t] = IF l.op = "PATCH" THEN "L96" ELSE "L122"]
            /\ resp' = NoResponse
    /\ UNCHANGED <<events, req, assigned>>

\* PATCH /events/<event_id> arrives; line 82 calls find_event_by_id, which
\* makes its first access to the list.
ConcUpdateBegin(t) ==
    /\ pc[t] = "idle"
    /\ \E event_id \in ConcPathIds : \E body \in ConcUpdateBodies : \E g \in get_json(body) :
        FindNext(t, [NoLocals EXCEPT !.op = "PATCH", !.id = event_id,
                                     !.valid = (Validate(g.data) = "ok"),
                                     !.title = IF Validate(g.data) = "ok"
                                               THEN GetTitle(g.data) ELSE ""])

\* DELETE /events/<event_id> arrives; line 115 calls find_event_by_id, which
\* makes its first access to the list.
ConcDeleteBegin(t) ==
    /\ pc[t] = "idle"
    /\ \E event_id \in ConcPathIds :
        FindNext(t, [NoLocals EXCEPT !.op = "DELETE", !.id = event_id])

\* find_event_by_id goes on with the next element.
ConcFindNext(t) ==
    /\ pc[t] = "find"
    /\ FindNext(t, local[t])

\* Line 96: event.title = data['title'], on the object found, in the list
\* or not.
ConcSetTitle(t) ==
    /\ pc[t] = "L96"
    /\ IF local[t].pos > 0
       THEN /\ events' = [events EXCEPT ![local[t].pos].title = local[t].title]
            /\ UNCHANGED local
       ELSE /\ local' = [local EXCEPT ![t].obj.title = local[t].title]
            /\ UNCHANGED events
    /\ pc' = [pc EXCEPT ![t] = "L99"]
    /\ resp' = NoResponse
    /\ UNCHANGED <<req, assigned>>

\* Line 99: return jsonify(event.to_dict()), 200
ConcUpdateReturn(t) ==
    /\ pc[t] = "L99"
    /\ Return(t, JsonResponse(to_dict(Deref(local[t], events)), 200))
    /\ UNCHANGED <<events, req, assigned>>

\* Lines 122-125: events.remove(event) and the 204.  list.remove raises
\* ValueError when the object is no longer in the list.
ConcRemove(t) ==
    /\ pc[t] = "L122"
    /\ pc' = [pc EXCEPT ![t] = "idle"]
    /\ IF local[t].pos = 0
       THEN /\ resp' = FrameworkError(500)
            /\ local' = [local EXCEPT ![t] = NoLocals]
            /\ UNCHANGED events
       ELSE /\ resp' = NoContent
            /\ events' = RemoveAt(events, local[t].pos)
            /\ local' = [u \in Threads |->
                   IF u = t THEN NoLocals
                   ELSE Detach(local[u], local[t].pos, events[local[t].pos])]
    /\ UNCHANGED <<req, assigned>>

NextConc ==
    \/ \E t \in Threads : ConcCreateBegin(t)
    \/ \E t \in Threads : ConcGenNext(t)
    \/ \E t \in Threads : ConcAppend(t)
    \/ \E t \in Threads : ConcCreateReturn(t)
    \/ \E t \in Threads : ConcUpdateBegin(t)
    \/ \E t \in Threads : ConcDeleteBegin(t)
    \/ \E t \in Threads : ConcFindNext(t)
    \/ \E t \in Threads : ConcSetTitle(t)
    \/ \E t \in Threads : ConcUpdateReturn(t)
    \/ \E t \in Threads : ConcRemove(t)

SpecConc == Init /\ [][NextConc]_vars

(******************************* claims ************************************)
UniqueIds(evs) ==
    \A i, j \in 1..Len(evs) : i # j => evs[i].id # evs[j].id

\* The request body is a JSON object that has the key "title".
HasTitleField(body) ==
    /\ body.kind = "json"
    /\ body.data.type = "dict"
    /\ \E p \in body.data.items : p[1] = "title"

TitleField(body) == (CHOOSE p \in body.data.items : p[1] = "title")[2]

EventBody(id, title) == [kind |-> "json", json |-> [id |-> id, title |-> title]]

ErrorBody(message) == [kind |-> "json", json |-> [error |-> message]]

\* C1: with requests handled one at a time, no two events of the collection
\* have the same id, in every reachable state.
C1_UniqueIds == UniqueIds(events)

\* A create has succeeded after a delete, and the list holds three events.
C1_Witness ==
    /\ req.op = "POST" /\ resp.status = 201
    /\ Len(events) >= 3
    /\ assigned # Ids(events)

\* C2 as claimed: a successful create never returns an id that an earlier
\* event had, deleted events included.
C2_NeverReused ==
    [][(req'.op = "POST" /\ resp'.status = 201)
          => resp'.body.json.id \notin assigned]_vars

\* C2 as amended: a successful create never returns an id held by an event
\* that is in the collection, and every earlier id that is not smaller than
\* the returned one belongs to an event that has been deleted.
C2_NotInCollection ==
    [][(req'.op = "POST" /\ resp'.status = 201)
          => /\ resp'.body.json.id \notin Ids(events)
             /\ \A a \in assigned : a >= resp'.body.json.id => a \notin Ids(events)]_vars

\* A create returned the id of a seed event, which no create had assigned.
C2_Witness ==
    /\ req.op = "POST" /\ resp.status = 201
    /\ resp.body.json.id \in Ids(SeedEvents)

\* C3: a create whose body has a title gets the id max + 1 (1 on an empty
\* collection), greater than every id in the collection before the call; the
\* event is appended at the end and returned with status 201.
C3_CreateAppendsMaxPlusOne ==
    [][(req'.op = "POST" /\ HasTitleField(req'.body))
          => /\ resp'.status = 201
             /\ resp'.body = EventBody(resp'.body.json.id, TitleField(req'.body))
             /\ events' = events \o <<[id |-> resp'.body.json.id,
                                       title |-> TitleField(req'.body)]>>
             /\ \A id \in Ids(events) : resp'.body.json.id > id
             /\ events # <<>> => (resp'.body.json.id - 1) \in Ids(events)
             /\ events = <<>> => resp'.body.json.id = 1]_vars

\* Scenario 1 of the specification, after some other request: POST
\* {"title": "Demo"} on ids 1, 2 answers 201 {"id": 3, "title": "Demo"}.
C3_Witness ==
    /\ req.op = "POST" /\ HasTitleField(req.body) /\ TitleField(req.body) = "Demo"
    /\ resp = [status |-> 201, body |-> EventBody(3, "Demo")]
    /\ Len(events) = 3
    /\ events[3] = [id |-> 3, title |-> "Demo"]
    /\ events[1].id = 1 /\ events[2].id = 2

\* C4 as claimed: create, and update of an id that exists, with a body that
\* is absent, is not JSON or has no title field, answers 400 with the body
\* {"error": "Missing required field: title"}.
C4_MissingTitleIs400 ==
    [][(/\ req'.op = "POST" \/ (req'.op = "PATCH" /\ req'.id \in Ids(events))
        /\ ~HasTitleField(req'.body))
          => resp' = [status |-> 400,
                      body |-> ErrorBody("Missing required field: title")]]_vars

\* C5: an update of an id that is not in the collection answers 404 with
\* {"error": "Event with ID <id> not found"}, whatever the body is.
C5_NotFoundBeforeValidation ==
    [][(req'.op = "PATCH" /\ req'.id \notin Ids(events))
          => resp' = [status |-> 404,
                      body |-> ErrorBody("Event with ID " \o ToString(req'.id)
                                             \o " not found")]]_vars

\* An update of a missing id whose body has no title either was answered 404.
C5_Witness ==
    /\ req.op = "PATCH" /\ ~HasTitleField(req.body)
    /\ req.id \notin Ids(events)
    /\ resp.status = 404

\* C6: once a delete of k has answered 204, every update or delete of k
\* issued right after it, and after each of those in turn, answers 404 and
\* leaves k absent.
C6_DeletedStaysNotFound ==
    [][(/\ req'.op \in {"PATCH", "DELETE"}
        /\ req'.id = req.id
        /\ \/ req.op = "DELETE" /\ resp.status = 204
           \/ req.op \in {"PATCH", "DELETE"} /\ resp.status = 404)
          => /\ resp'.status = 404
             /\ req'.id \notin Ids(events')]_vars

\* An update of an id that an event once had and lost to a delete was
\* answered 404.
C6_Witness ==
    /\ req.op = "PATCH" /\ resp.status = 404
    /\ req.id \in assigned \ Ids(events)

FailureStatuses == {400, 404, 415, 500}

\* C7: a request that fails (400 or 404, and equally a 415 or 500 from the
\* framework) leaves the collection as it was: same events, ids, titles, order.
C7_FailureLeavesCollection ==
    [][resp'.status \in FailureStatuses => events' = events]_vars

\* An update of an existing event was answered 400, on a collection that
\* earlier requests had changed.
C7_Witness ==
    /\ req.op = "PATCH" /\ req.id \in Ids(events)
    /\ resp.status = 400
    /\ events # SeedEvents

\* C8: no operation changes the id of an event in the collection; a
\* successful update of k replaces the title of event k alone and answers 200
\* with id k and the new title; a successful delete of k removes event k
\* alone; the other events keep id, title and relative order.
C8_OnlyEventKTouched ==
    [][/\ (req'.op = "PATCH" /\ resp'.status = 200)
            => /\ Len(events') = Len(events)
               /\ \A i \in 1..Len(events) :
                    /\ events'[i].id = events[i].id
                    /\ events[i].id # req'.id => events'[i] = events[i]
                    /\ events[i].id = req'.id
                          => events'[i].title = TitleField(req'.body)
               /\ resp'.body = EventBody(req'.id, TitleField(req'.body))
       /\ (req'.op = "DELETE" /\ resp'.status = 204)
            => /\ req'.id \in Ids(events)
               /\ Len(events') = Len(events) - 1
               /\ LET Kept(e) == e.id # req'.id
                  IN events' = SelectSeq(events, Kept)
       /\ req'.op = "POST"
            => /\ Len(events') >= Len(events)
               /\ SubSeq(events', 1, Len(events)) = events]_vars

\* An update of the event in the middle of three events has succeeded.
C8_Witness ==
    /\ req.op = "PATCH" /\ resp.status = 200
    /\ Len(events) = 3
    /\ events[2].id = req.id

\* C9 as claimed: every event in the collection has a non-empty title.
C9_TitlesNonEmpty ==
    \A i \in 1..Len(events) : events[i].title # ""

\* C9 as amended: a create, or an update of an existing id, whose body is a
\* JSON object with the key title succeeds whatever the value is, the empty
\* string included, and the event holds exactly that value afterwards.
C9_TitleStoredAsGiven ==
    [][(/\ HasTitleField(req'.body)
        /\ req'.op = "POST" \/ (req'.op = "PATCH" /\ req'.id \in Ids(events)))
          => /\ resp'.status = IF req'.op = "POST" THEN 201 ELSE 200
             /\ resp'.body.json.title = TitleField(req'.body)
             /\ \E i \in 1..Len(events') :
                    events'[i] = [id |-> resp'.body.json.id,
                                  title |-> TitleField(req'.body)]]_vars

\* A request with the title "" has succeeded and the event holds "".
C9_Witness ==
    /\ req.op \in {"POST", "PATCH"}
    /\ resp.status \in {200, 201}
    /\ resp.body.json.title = ""
    /\ \E i \in 1..Len(events) : events[i] = [id |-> resp.body.json.id, title |-> ""]

\* C10: nothing guards the append of create_event: a thread appends the id it
\* computed at line 56 whatever the list holds by then, so when another
\* thread has appended that id in between, the list gets two events with
\* equal ids.
C10_AppendUsesStaleId ==
    [][\A t \in Threads :
          (pc[t] = "L59" /\ pc'[t] = "L63")
             => /\ Len(events') = Len(events) + 1
                /\ events'[Len(events')].id = local[t].new_id
                /\ local[t].new_id \in Ids(events) => ~UniqueIds(events')]_vars

\* Both threads are in create_event past the append, with the same new_id,
\* and the list holds the two events they appended, with equal ids.
C10_Witness ==
    /\ \A t \in Threads : pc[t] = "L63" /\ local[t].op = "POST" /\ local[t].pos > 0
    /\ local[1].new_id = local[2].new_id
    /\ local[1].pos # local[2].pos
    /\ \A t \in Threads : events[local[t].pos].id = local[t].new_id

====
